---- MODULE Spec2Model ----
(***************************************************************************)
(* State-machine model of the proxy pool (src/src/proxy_manager.py), the   *)
(* engagement scheduler (src/src/engagement_scheduler.py) and the deferred *)
(* run-loop (src/src/account_manager.py, src/main.py).                     *)
(*                                                                         *)
(* Time is counted in whole hours (now); an interval computed by a job is  *)
(* kept in hundredths of an hour so that base * variance_percent / 100 is  *)
(* exact.  The rows of a table are a sequence in insertion order, the row  *)
(* id being the position.                                                  *)
(***************************************************************************)
EXTENDS Integers, Sequences, FiniteSets, TLC

\* ------------------------------------------------------------------ bounds
MaxBatch == 2            \* rows of one proxies CSV file
MaxFailures == 6         \* cap of failure_count
MaxTime == 4             \* last hour the clock reaches
MaxHours == 4            \* largest min_hours / max_hours a configuration is drawn with

\* ------------------------------------------------------- program constants
FailureThreshold == 5    \* the literal 5 of the SQL in proxy_manager.py
Epoch == 0               \* sort key '1970-01-01' given to a NULL last_used
NULL == -1               \* SQL NULL in a number column
None == <<>>             \* Python None as a return value; a value x is <<x>>

IPs == {"10.0.0.1", "10.0.0.2"}
Ports == {"8080"}
BadPort == "x"           \* a port field int() rejects with ValueError

\* a row of the CSV file: the port is still text
CsvRows == [ip : IPs, port : Ports \cup {BadPort}]

VARIABLES
    proxies,     \* proxies table: Seq of [ip, port, status, failure_count, last_used]
    consec,      \* per proxy id: _increment_failure_count calls since the last reset
    ret,         \* the ProxyManager call made last: [op, val, rows, id, outcome], its
                 \* name, the proxy it returned, and its argument (the rows of the
                 \* file, the proxy id) or what each probe of a sweep met
    now,         \* wall clock, in hours; always > Epoch
    config,      \* the "engagement" and "proxy" sections of the configuration
    accounts,    \* accounts table: per username [present, account_status, counters, dates]
    activity_log,\* activity_log table: Seq of [account, activity_type, status]
    jobs,        \* job table of the schedule library: per job [scheduled, interval, next_run]
    run,         \* the run-loop thread: the job it executes, its position and locals
    mode,        \* "cli" before run_engagement, "deferred" in the loop, "immediate"
                 \* while run_activities starts threads, "exited" when the process ended
    workers,     \* running_threads and what each thread is at: a function from the
                 \* accounts whose thread was started to [pc, plan, position, locals]
    saved        \* a function from the accounts _save_account was called for to the
                 \* password it was given

poolVars == <<proxies, consec, ret>>
schedVars == <<config, accounts, activity_log, jobs, run, mode, workers, saved>>
vars == <<proxies, consec, ret, now, config, accounts, activity_log, jobs, run, mode,
          workers, saved>>

\* ------------------------------------------------------------ proxy pool
\* int(row.get('port', 0)): the number a port text denotes; BadPort has none
ParsePort(text) ==
    CASE text = "8080" -> 8080
      [] OTHER -> NULL

PortIsNumber(text) == text \in Ports

\* the row INSERTed for a CSV record: status 'active', failure_count DEFAULT 0,
\* last_used NULL
NewProxyRow(row) ==
    [ip |-> row.ip, port |-> ParsePort(row.port), status |-> "active",
     failure_count |-> 0, last_used |-> NULL]

\* the INSERT made without the SELECT for an existing row
ProxyExists_NoSelect(ps, row) == FALSE

\* SELECT id FROM proxies WHERE ip = ? AND port = ?  ... fetchone() is not None
ProxyExists(ps, row) ==
    \E i \in 1..Len(ps) : ps[i].ip = row.ip /\ ps[i].port = ParsePort(row.port)

RECURSIVE LoadRows_Replace(_, _)
\* the for-loop of load_proxies with INSERT OR REPLACE for a row that exists
LoadRows_Replace(ps, rows) ==
    IF rows = <<>> THEN [ok |-> TRUE, table |-> ps]
    ELSE LET row == Head(rows)
         IN  IF ~PortIsNumber(row.port) THEN [ok |-> FALSE, table |-> ps]
             ELSE IF ProxyExists(ps, row)
             THEN LoadRows_Replace(
                      [i \in 1..Len(ps) |->
                          IF ps[i].ip = row.ip /\ ps[i].port = ParsePort(row.port)
                          THEN NewProxyRow(row) ELSE ps[i]],
                      Tail(rows))
             ELSE LoadRows_Replace(Append(ps, NewProxyRow(row)), Tail(rows))

RECURSIVE LoadRows(_, _)
\* the for-loop of load_proxies over the rows still to read; ok is FALSE when
\* a row raised (int() of a port that is no number)
LoadRows(ps, rows) ==
    IF rows = <<>> THEN [ok |-> TRUE, table |-> ps]
    ELSE LET row == Head(rows)
         IN  IF ~PortIsNumber(row.port) THEN [ok |-> FALSE, table |-> ps]
             ELSE IF ProxyExists(ps, row) THEN LoadRows(ps, Tail(rows))
             ELSE LoadRows(Append(ps, NewProxyRow(row)), Tail(rows))

\* load_proxies: commit when every row went through, rollback of the whole
\* batch in the except branch
load_proxies(ps, rows) ==
    LET r == LoadRows(ps, rows)
    IN  IF r.ok THEN r.table ELSE ps

\* the SELECT of get_available_proxies with its WHERE clause left out
IsAvailable_NoWhere(row) == row.status \in {"active", "inactive"}

\* WHERE status = 'active' AND failure_count < 5
IsAvailable(row) ==
    row.status = "active" /\ row.failure_count < FailureThreshold

\* the dict built for a fetched row
ProxyDict(ps, i) ==
    [id |-> i, status |-> ps[i].status, failure_count |-> ps[i].failure_count,
     last_used |-> ps[i].last_used]

RECURSIVE AvailableUpTo(_, _)
AvailableUpTo(ps, n) ==
    IF n = 0 THEN <<>>
    ELSE IF IsAvailable(ps[n])
         THEN Append(AvailableUpTo(ps, n - 1), ProxyDict(ps, n))
         ELSE AvailableUpTo(ps, n - 1)

\* get_available_proxies: the available rows as dicts, in row order
get_available_proxies(ps) == AvailableUpTo(ps, Len(ps))

\* the sort key with a NULL last_used ranked as the newest stamp, not the oldest
SortKey_NullNewest(p) == IF p.last_used = NULL THEN MaxTime + 1 ELSE p.last_used

\* key=lambda p: p['last_used'] if p['last_used'] else '1970-01-01'
SortKey(p) == IF p.last_used = NULL THEN Epoch ELSE p.last_used

RECURSIVE InsertSorted(_, _)
\* p put behind every element whose key is not larger (the sort is stable)
InsertSorted(sorted, p) ==
    IF sorted = <<>> THEN <<p>>
    ELSE IF SortKey(Head(sorted)) <= SortKey(p)
         THEN <<Head(sorted)>> \o InsertSorted(Tail(sorted), p)
         ELSE <<p>> \o sorted

RECURSIVE SortByLastUsed(_)
\* available_proxies.sort(key=...)
SortByLastUsed(list) ==
    IF list = <<>> THEN <<>>
    ELSE InsertSorted(SortByLastUsed(SubSeq(list, 1, Len(list) - 1)),
                      list[Len(list)])

\* get_next_proxy with the UPDATE of last_used lacking its WHERE id = ?
get_next_proxy_StampAll(ps, t) ==
    LET available_proxies == get_available_proxies(ps)
    IN  IF available_proxies = <<>> THEN [ret |-> None, table |-> ps]
        ELSE [ret |-> <<SortByLastUsed(available_proxies)[1]>>,
              table |-> [i \in 1..Len(ps) |-> [ps[i] EXCEPT !.last_used = t]]]

\* get_next_proxy: [ret, table]; ret is None when no proxy is available
get_next_proxy(ps, t) ==
    LET available_proxies == get_available_proxies(ps)
    IN  IF available_proxies = <<>> THEN [ret |-> None, table |-> ps]
        ELSE LET proxy == SortByLastUsed(available_proxies)[1]
             IN  [ret |-> <<proxy>>,
                  table |-> [ps EXCEPT ![proxy.id].last_used = t]]

\* _increment_failure_count with the threshold test off by one (> for >=)
increment_failure_count_OffByOne(ps, id) ==
    [ps EXCEPT ![id].failure_count = @ + 1,
               ![id].status = IF ps[id].failure_count + 1 > FailureThreshold
                              THEN "inactive" ELSE @]

\* _increment_failure_count: one UPDATE; the CASE reads the old failure_count
increment_failure_count(ps, id) ==
    [ps EXCEPT ![id].failure_count = @ + 1,
               ![id].status = IF ps[id].failure_count + 1 >= FailureThreshold
                              THEN "inactive" ELSE @]

\* reset_failure_count with the status column left out of the UPDATE
reset_failure_count_CountOnly(ps, id) == [ps EXCEPT ![id].failure_count = 0]

\* reset_failure_count
reset_failure_count(ps, id) ==
    [ps EXCEPT ![id].failure_count = 0, ![id].status = "active"]

\* what requests.get does in test_proxy: HTTP 200, another status code, or an
\* exception (timeout, connection refused)
TestOutcomes == {"ok", "bad_status", "exception"}

\* test_proxy: [result, table]; only the except branch counts a failure
test_proxy(ps, proxy, outcome) ==
    CASE outcome = "ok" -> [result |-> TRUE, table |-> ps]
      [] outcome = "bad_status" -> [result |-> FALSE, table |-> ps]
      [] OTHER -> [result |-> FALSE,
                   table |-> increment_failure_count(ps, proxy.id)]

RECURSIVE RotateLoop(_, _, _)
\* the for-loop of rotate_proxies over the list fetched at its start
RotateLoop(ps, list, outcome) ==
    IF list = <<>> THEN ps
    ELSE LET proxy == Head(list)
             t == test_proxy(ps, proxy, outcome[proxy.id])
         IN  RotateLoop(IF t.result THEN reset_failure_count(t.table, proxy.id)
                        ELSE t.table,
                        Tail(list), outcome)

\* rotate_proxies testing every row of the table, not only the available ones
rotate_proxies_AllRows(ps, outcome) ==
    RotateLoop(ps, [i \in 1..Len(ps) |-> ProxyDict(ps, i)], outcome)

\* rotate_proxies: the available proxies are fetched once, then tested in turn
rotate_proxies(ps, outcome) ==
    RotateLoop(ps, get_available_proxies(ps), outcome)

\* the consecutive-failure tally after a sweep: a probed proxy that raised
\* counts one more, a probed proxy that answered 200 starts again at 0
ConsecAfterRotate(ps, c, outcome) ==
    [i \in DOMAIN c |->
        IF ~IsAvailable(ps[i]) THEN c[i]
        ELSE CASE outcome[i] = "exception" -> c[i] + 1
               [] outcome[i] = "ok" -> 0
               [] OTHER -> c[i]]

\* consec extended by 0 for the rows a load added
ConsecAfterLoad(c, n) == [i \in 1..n |-> IF i \in DOMAIN c THEN c[i] ELSE 0]

\* ---------------------------------------------------------- pool actions
Batches == UNION {[1..n -> CsvRows] : n \in 0..MaxBatch}

LoadProxies(rows) ==
    /\ proxies' = load_proxies(proxies, rows)
    /\ consec' = ConsecAfterLoad(consec, Len(proxies'))
    /\ ret' = [op |-> "load_proxies", val |-> None, rows |-> rows, id |-> 0,
               outcome |-> <<>>]
    /\ UNCHANGED <<now, schedVars>>

GetNextProxy ==
    /\ proxies' = get_next_proxy(proxies, now).table
    /\ ret' = [op |-> "get_next_proxy", val |-> get_next_proxy(proxies, now).ret,
               rows |-> <<>>, id |-> 0, outcome |-> <<>>]
    /\ UNCHANGED <<consec, now, schedVars>>

ReportFailure(id) ==
    /\ proxies[id].failure_count < MaxFailures
    /\ proxies' = increment_failure_count(proxies, id)
    /\ consec' = [consec EXCEPT ![id] = @ + 1]
    /\ ret' = [op |-> "increment_failure_count", val |-> None, rows |-> <<>>,
               id |-> id, outcome |-> <<>>]
    /\ UNCHANGED <<now, schedVars>>

ReportHealthy(id) ==
    /\ proxies' = reset_failure_count(proxies, id)
    /\ consec' = [consec EXCEPT ![id] = 0]
    /\ ret' = [op |-> "reset_failure_count", val |-> None, rows |-> <<>>,
               id |-> id, outcome |-> <<>>]
    /\ UNCHANGED <<now, schedVars>>

RotateProxies(outcome) ==
    /\ proxies' = rotate_proxies(proxies, outcome)
    /\ consec' = ConsecAfterRotate(proxies, consec, outcome)
    /\ ret' = [op |-> "rotate_proxies", val |-> None, rows |-> <<>>, id |-> 0,
               outcome |-> outcome]
    /\ UNCHANGED <<now, schedVars>>

Tick ==
    /\ now < MaxTime
    /\ now' = now + 1
    /\ UNCHANGED <<poolVars, schedVars>>

\* ------------------------------------------------- scheduler: the state
AccountIds == {1, 2}     \* ids of the rows the accounts table may hold

\* the job functions handed to schedule.every(...).do(...)
PostCommentJobs == [func : {"post", "comment"}, account : AccountIds]
CheckStatusJob == [func |-> "check_status", account |-> 0]
RotateJob == [func |-> "rotate_proxies", account |-> 0]
JobIds == PostCommentJobs \cup {CheckStatusJob, RotateJob}

\* a job that is not in the job table; fired is the time at which run_pending
\* last called the job function, NULL when it has not called it yet
NoJob == [scheduled |-> FALSE, interval |-> 0, next_run |-> 0, fired |-> NULL]

\* what a job function returns: None, schedule.CancelJob or a number of hours
\* (in hundredths), with the two random draws that gave it
RetNone == [kind |-> "none", hours |-> 0, base |-> 0, sign |-> 0]
RetCancelJob == [kind |-> "cancel", hours |-> 0, base |-> 0, sign |-> 0]
RetHours(h, base, sign) == [kind |-> "hours", hours |-> h, base |-> base, sign |-> sign]

\* the run-loop between two jobs
IdleRun == [pc |-> "idle", job |-> CheckStatusJob, success |-> "unset",
            post_id |-> "unset", log0 |-> 0, ret |-> RetNone]

\* a row INSERTed by _save_account: status 'active', counters DEFAULT 0
NewAccountRow ==
    [present |-> TRUE, account_status |-> "active", total_posts |-> 0,
     total_comments |-> 0, last_post_date |-> NULL, last_comment_date |-> NULL]

\* an id no INSERT has used yet
AbsentAccountRow == [NewAccountRow EXCEPT !.present = FALSE]

\* datetime.now().hour
Hour(t) == t % 24

Max(a, b) == IF a >= b THEN a ELSE b

\* _is_within_activity_hours with the upper bound of the window left out
is_within_activity_hours_NoEnd(cfg, t) == cfg.activity_hours.start <= Hour(t)

\* _is_within_activity_hours reading a window with start after end as one
\* that runs over midnight
is_within_activity_hours_Wrap(cfg, t) ==
    IF cfg.activity_hours.start <= cfg.activity_hours.end
    THEN cfg.activity_hours.start <= Hour(t) /\ Hour(t) <= cfg.activity_hours.end
    ELSE cfg.activity_hours.start <= Hour(t) \/ Hour(t) <= cfg.activity_hours.end

\* _is_within_activity_hours: start_hour <= current_hour <= end_hour
is_within_activity_hours(cfg, t) ==
    /\ cfg.activity_hours.start <= Hour(t)
    /\ Hour(t) <= cfg.activity_hours.end

\* the interval computation without the floor at min_hours
next_hours_NoFloor(freq, base, sign) ==
    base * 100 + base * freq.variance_percent * sign

\* next_post_hours / next_comment_hours, in hundredths of an hour:
\* variance_hours = base_hours * (variance_percent / 100) * sign;
\* max(min_hours, base_hours + variance_hours)
next_hours(freq, base, sign) ==
    Max(freq.min_hours * 100, base * 100 + base * freq.variance_percent * sign)

\* the "post_frequency" or "comment_frequency" section a job function reads
Frequency(cfg, func) == IF func = "post" THEN cfg.post_frequency ELSE cfg.comment_frequency

\* get_account_details(username) is not None
AccountFound(acc, a) == acc[a].present

\* the SELECT of _schedule_engagement without the test of account_status
SelectedForSchedule_AnyStatus(acc, a, specific) ==
    /\ acc[a].present
    /\ specific # {} => a \in specific

\* WHERE [username IN (...) AND] account_status = 'active' of _schedule_engagement
SelectedForSchedule(acc, a, specific) ==
    /\ acc[a].present
    /\ acc[a].account_status = "active"
    /\ specific # {} => a \in specific

\* schedule.every().day.at("04:00"): the first 04:00 after t
NextDailyRun(t) == IF Hour(t) < 4 THEN t - Hour(t) + 4 ELSE t - Hour(t) + 28

\* position of a job in schedule.jobs: the order of the do() calls
Rank(j) ==
    CASE j.func = "check_status" -> 1
      [] j.func = "rotate_proxies" -> 2
      [] j.func = "post" -> 1 + 2 * j.account
      [] OTHER -> 2 + 2 * j.account

\* job.should_run
Due(j) == jobs[j].scheduled /\ now >= jobs[j].next_run

\* run_pending runs the due jobs sorted by next_run (the sort is stable)
IsNext(j) ==
    /\ Due(j)
    /\ \A k \in JobIds : Due(k) =>
          \/ jobs[j].next_run < jobs[k].next_run
          \/ jobs[j].next_run = jobs[k].next_run /\ Rank(j) <= Rank(k)

\* Job.run of the schedule library after the job function has returned, and
\* _run_job with the CancelJob test left out
job_done_NoCancel(js, j, r, t) ==
    [js EXCEPT ![j].next_run = t + js[j].interval]

\* Job.run of the schedule library after the job function has returned
\* (last_run = now, next_run = now + the job's own interval; the value returned
\* is used for nothing else), then _run_job: a job that returned CancelJob is
\* taken out of the table
job_done(js, j, r, t) ==
    IF r.kind = "cancel" THEN [js EXCEPT ![j] = NoJob]
    ELSE [js EXCEPT ![j].next_run = t + js[j].interval]

\* ---------------------------------------------- scheduler: deferred mode
MaxLog == 2              \* rows the activity_log table may hold

\* configurations the deferred runs start from
SchedConfigs ==
    {[post_frequency |-> [min_hours |-> 1, max_hours |-> 2, variance_percent |-> 20],
      comment_frequency |-> [min_hours |-> 2, max_hours |-> 2, variance_percent |-> 30],
      activity_hours |-> [start |-> 2, end |-> 3],
      rotation_frequency |-> 2]}

\* config.json as _load_config writes it when there is none
DefaultConfig ==
    [post_frequency |-> [min_hours |-> 12, max_hours |-> 48, variance_percent |-> 20],
     comment_frequency |-> [min_hours |-> 4, max_hours |-> 24, variance_percent |-> 30],
     activity_hours |-> [start |-> 8, end |-> 23],
     rotation_frequency |-> 24]

\* proxies tables the deferred runs start from: empty, or two loaded proxies
FreshProxy(ip) ==
    [ip |-> ip, port |-> 8080, status |-> "active", failure_count |-> 0,
     last_used |-> NULL]
SchedPools == {<<>>, <<FreshProxy("10.0.0.1"), FreshProxy("10.0.0.2")>>}

\* an uncaught exception leaves run_pending, run_engagement and main, and the
\* except clause of __main__ ends the process with sys.exit(1)
Crash(j) ==
    /\ mode' = "exited"
    /\ run' = [run EXCEPT !.pc = "dead", !.job = j]

\* schedule_activities, called by run_engagement(scheduled=True, accounts):
\* schedule.clear(), the two maintenance jobs, then one post and one comment
\* job per selected account, each with its own first interval
ScheduleActivities(specific, first) ==
    /\ mode = "cli"
    /\ \A j \in PostCommentJobs :
          first[j] <= Frequency(config, j.func).min_hours
    /\ jobs' = [j \in JobIds |->
          CASE j = CheckStatusJob ->
                 [scheduled |-> TRUE, interval |-> 24, next_run |-> NextDailyRun(now),
                  fired |-> NULL]
            [] j = RotateJob ->
                 [scheduled |-> TRUE, interval |-> config.rotation_frequency,
                  next_run |-> now + config.rotation_frequency, fired |-> NULL]
            [] OTHER ->
                 IF SelectedForSchedule(accounts, j.account, specific)
                 THEN [scheduled |-> TRUE, interval |-> first[j],
                       next_run |-> now + first[j], fired |-> NULL]
                 ELSE NoJob]
    /\ mode' = "deferred"
    /\ UNCHANGED <<poolVars, now, config, accounts, activity_log, run, workers, saved>>

\* a due post or comment job starts: get_account_details, then the activity
\* window test
JobBegin(j, db_ok) ==
    /\ mode = "deferred" /\ run.pc = "idle"
    /\ j \in PostCommentJobs /\ IsNext(j)
    /\ Len(activity_log) < MaxLog
    /\ IF ~db_ok THEN Crash(j)
       ELSE /\ mode' = mode
            /\ run' =
                 IF ~AccountFound(accounts, j.account)
                 THEN [IdleRun EXCEPT !.pc = "return", !.job = j,
                                      !.log0 = Len(activity_log), !.ret = RetCancelJob]
                 ELSE IF ~is_within_activity_hours(config, now)
                 THEN [IdleRun EXCEPT !.pc = "return", !.job = j,
                                      !.log0 = Len(activity_log)]
                 ELSE [IdleRun EXCEPT !.pc = "proxy", !.job = j,
                                      !.log0 = Len(activity_log)]
    /\ jobs' = [jobs EXCEPT ![j].fired = now]
    /\ UNCHANGED <<poolVars, now, config, accounts, activity_log, workers, saved>>

\* the job going on to the login without the test "if not proxy: return"
JobGetProxy_NoNoneTest(db_ok) ==
    /\ run.pc = "proxy"
    /\ IF ~db_ok THEN Crash(run.job) /\ UNCHANGED <<proxies, ret>>
       ELSE LET r == get_next_proxy(proxies, now)
            IN  /\ proxies' = r.table
                /\ ret' = [op |-> "get_next_proxy", val |-> r.ret, rows |-> <<>>,
                           id |-> 0, outcome |-> <<>>]
                /\ run' = [run EXCEPT !.pc = "login"]
                /\ mode' = mode
    /\ UNCHANGED <<consec, now, config, accounts, activity_log, jobs, workers, saved>>

\* proxy = get_next_proxy(); return when there is none
JobGetProxy(db_ok) ==
    /\ run.pc = "proxy"
    /\ IF ~db_ok THEN Crash(run.job) /\ UNCHANGED <<proxies, ret>>
       ELSE LET r == get_next_proxy(proxies, now)
            IN  /\ proxies' = r.table
                /\ ret' = [op |-> "get_next_proxy", val |-> r.ret, rows |-> <<>>,
                           id |-> 0, outcome |-> <<>>]
                /\ run' = [run EXCEPT !.pc = IF r.ret = None THEN "return" ELSE "login"]
                /\ mode' = mode
    /\ UNCHANGED <<consec, now, config, accounts, activity_log, jobs, workers, saved>>

\* the login step with a failed login counted against the proxy it went through
JobLogin_CountsFailure(ok) ==
    /\ run.pc = "login"
    /\ run' = [run EXCEPT !.success = IF ok THEN "ok" ELSE "failed",
                          !.pc = IF ok THEN "submit" ELSE "return"]
    /\ proxies' = IF ok THEN proxies
                  ELSE increment_failure_count(proxies, ret.val[1].id)
    /\ UNCHANGED <<consec, ret, now, config, accounts, activity_log, jobs, mode,
                 workers, saved>>

\* success, session_data = reddit_client.login(...); the client catches its
\* own exceptions and reports them as a failed login
JobLogin(ok) ==
    /\ run.pc = "login"
    /\ run' = [run EXCEPT !.success = IF ok THEN "ok" ELSE "failed",
                          !.pc = IF ok THEN "submit" ELSE "return"]
    /\ UNCHANGED <<poolVars, now, config, accounts, activity_log, jobs, mode,
                 workers, saved>>

\* submit_post, or get_trending_posts and submit_comment: an id or None
JobSubmit(got_id) ==
    /\ run.pc = "submit"
    /\ run' = [run EXCEPT !.post_id = IF got_id THEN "id" ELSE "none",
                          !.pc = IF got_id THEN "log" ELSE "next"]
    /\ UNCHANGED <<poolVars, now, config, accounts, activity_log, jobs, mode,
                 workers, saved>>

\* _log_activity keeping one row per account: the row of the account is
\* replaced when there is one
JobLogActivity_OneRowPerAccount(db_ok) ==
    /\ run.pc = "log"
    /\ IF ~db_ok THEN Crash(run.job) /\ UNCHANGED activity_log
       ELSE LET rec == [account |-> run.job.account, activity_type |-> run.job.func,
                        status |-> "success"]
            IN  /\ activity_log' =
                      IF \E i \in 1..Len(activity_log) :
                            activity_log[i].account = rec.account
                      THEN [i \in 1..Len(activity_log) |->
                               IF activity_log[i].account = rec.account
                               THEN rec ELSE activity_log[i]]
                      ELSE Append(activity_log, rec)
                /\ run' = [run EXCEPT !.pc = "update"]
                /\ mode' = mode
    /\ UNCHANGED <<poolVars, now, config, accounts, jobs, workers, saved>>

\* _log_activity(account_id, kind, ..., "success")
JobLogActivity(db_ok) ==
    /\ run.pc = "log"
    /\ IF ~db_ok THEN Crash(run.job) /\ UNCHANGED activity_log
       ELSE /\ activity_log' = Append(activity_log,
                   [account |-> run.job.account, activity_type |-> run.job.func,
                    status |-> "success"])
            /\ run' = [run EXCEPT !.pc = "update"]
            /\ mode' = mode
    /\ UNCHANGED <<poolVars, now, config, accounts, jobs, workers, saved>>

\* the UPDATE of a job function without its WHERE clause: every row counts
update_account_NoWhere(acc, a, func, t) ==
    [b \in DOMAIN acc |->
        IF ~acc[b].present THEN acc[b]
        ELSE IF func = "post"
        THEN [acc[b] EXCEPT !.last_post_date = t, !.total_posts = @ + 1]
        ELSE [acc[b] EXCEPT !.last_comment_date = t, !.total_comments = @ + 1]]

\* UPDATE accounts SET last_post_date = ?, total_posts = total_posts + 1
\* WHERE id = ?  (the comment job: last_comment_date, total_comments)
update_account(acc, a, func, t) ==
    IF ~acc[a].present THEN acc
    ELSE IF func = "post"
    THEN [acc EXCEPT ![a].last_post_date = t, ![a].total_posts = @ + 1]
    ELSE [acc EXCEPT ![a].last_comment_date = t, ![a].total_comments = @ + 1]

JobUpdateAccount(db_ok) ==
    /\ run.pc = "update"
    /\ IF ~db_ok THEN Crash(run.job) /\ UNCHANGED accounts
       ELSE /\ accounts' = update_account(accounts, run.job.account, run.job.func, now)
            /\ run' = [run EXCEPT !.pc = "next"]
            /\ mode' = mode
    /\ UNCHANGED <<poolVars, now, config, activity_log, jobs, workers, saved>>

\* "Schedule next post": the two random draws and the value returned
JobScheduleNext(base, sign) ==
    /\ run.pc = "next"
    /\ LET freq == Frequency(config, run.job.func)
       IN  /\ freq.min_hours <= base /\ base <= freq.max_hours
           /\ run' = [run EXCEPT !.pc = "return",
                                 !.ret = RetHours(next_hours(freq, base, sign), base, sign)]
    /\ UNCHANGED <<poolVars, now, config, accounts, activity_log, jobs, mode,
                 workers, saved>>

\* the job function has returned to schedule: Job.run re-arms the job and
\* _run_job cancels it when the value is CancelJob
JobReturn ==
    /\ run.pc = "return"
    /\ jobs' = job_done(jobs, run.job, run.ret, now)
    /\ run' = IdleRun
    /\ UNCHANGED <<poolVars, now, config, accounts, activity_log, mode, workers, saved>>

\* the daily job: account_manager.check_status only reads and logs
RunCheckStatus ==
    /\ mode = "deferred" /\ run.pc = "idle"
    /\ IsNext(CheckStatusJob)
    /\ jobs' = [jobs EXCEPT ![CheckStatusJob].next_run = NextDailyRun(now),
                           ![CheckStatusJob].fired = now]
    /\ UNCHANGED <<poolVars, now, config, accounts, activity_log, run, mode,
                 workers, saved>>

\* the periodic job run in a thread of its own as soon as it is due, whatever
\* the run-loop is doing
RunRotateProxies_Threaded(outcome) ==
    /\ mode = "deferred"
    /\ Due(RotateJob)
    /\ proxies' = rotate_proxies(proxies, outcome)
    /\ consec' = ConsecAfterRotate(proxies, consec, outcome)
    /\ ret' = [op |-> "rotate_proxies", val |-> None, rows |-> <<>>, id |-> 0,
               outcome |-> outcome]
    /\ jobs' = job_done([jobs EXCEPT ![RotateJob].fired = now], RotateJob, RetNone, now)
    /\ UNCHANGED <<now, config, accounts, activity_log, run, mode, workers, saved>>

\* the periodic job: proxy_manager.rotate_proxies
RunRotateProxies(outcome) ==
    /\ mode = "deferred" /\ run.pc = "idle"
    /\ IsNext(RotateJob)
    /\ proxies' = rotate_proxies(proxies, outcome)
    /\ consec' = ConsecAfterRotate(proxies, consec, outcome)
    /\ ret' = [op |-> "rotate_proxies", val |-> None, rows |-> <<>>, id |-> 0,
               outcome |-> outcome]
    /\ jobs' = job_done([jobs EXCEPT ![RotateJob].fired = now], RotateJob, RetNone, now)
    /\ UNCHANGED <<now, config, accounts, activity_log, run, mode, workers, saved>>

\* the accounts table is a file other processes and the operator write too:
\* a row is deleted, or its status set to suspended or banned
ExternalDeleteAccount(a) ==
    /\ mode = "deferred"
    /\ accounts[a].present
    /\ accounts' = [accounts EXCEPT ![a].present = FALSE]
    /\ UNCHANGED <<poolVars, now, config, activity_log, jobs, run, mode,
                 workers, saved>>

ExternalSetStatus(a, st) ==
    /\ mode = "deferred"
    /\ accounts[a].present /\ accounts[a].account_status = "active"
    /\ accounts' = [accounts EXCEPT ![a].account_status = st]
    /\ UNCHANGED <<poolVars, now, config, activity_log, jobs, run, mode,
                 workers, saved>>

\* time passes while the process lives
TickDeferred ==
    /\ mode # "exited"
    /\ Tick

Init ==
    /\ proxies \in SchedPools
    /\ consec = [i \in 1..Len(proxies) |-> 0]
    /\ ret = [op |-> "init", val |-> None, rows |-> <<>>, id |-> 0, outcome |-> <<>>]
    /\ now = 1
    /\ config \in SchedConfigs
    /\ accounts = [a \in AccountIds |-> IF a = 1 THEN NewAccountRow ELSE AbsentAccountRow]
    /\ activity_log = <<>>
    /\ jobs = [j \in JobIds |-> NoJob]
    /\ run = IdleRun
    /\ mode = "cli"
    /\ workers = <<>>
    /\ saved = <<>>

Next ==
    \/ /\ mode = "cli"
       /\ \E specific \in SUBSET AccountIds, first \in [PostCommentJobs -> 1..MaxHours] :
             ScheduleActivities(specific, first)
    \/ \E j \in PostCommentJobs, db_ok \in BOOLEAN : JobBegin(j, db_ok)
    \/ \E db_ok \in BOOLEAN : JobGetProxy(db_ok)
    \/ \E ok \in BOOLEAN : JobLogin(ok)
    \/ \E got_id \in BOOLEAN : JobSubmit(got_id)
    \/ \E db_ok \in BOOLEAN : JobLogActivity(db_ok)
    \/ \E db_ok \in BOOLEAN : JobUpdateAccount(db_ok)
    \/ \E base \in 1..MaxHours, sign \in {-1, 1} : JobScheduleNext(base, sign)
    \/ JobReturn
    \/ RunCheckStatus
    \/ \E outcome \in [1..Len(proxies) -> TestOutcomes] : RunRotateProxies(outcome)
    \/ \E a \in AccountIds : ExternalDeleteAccount(a)
    \/ \E a \in AccountIds, st \in {"suspended", "banned"} : ExternalSetStatus(a, st)
    \/ TickDeferred

Spec == Init /\ [][Next]_vars

\* ------------------------------------------- the interval computation alone
Variances == {0, 20, 30, 100, 150}

Frequencies ==
    {f \in [min_hours : 1..MaxHours, max_hours : 1..MaxHours,
            variance_percent : Variances] : f.min_hours <= f.max_hours}

\* a post or comment job of the run-loop has come to "Schedule next ..." after
\* a submission that returned no id, under any configured frequencies
TimingInit ==
    /\ proxies = <<FreshProxy("10.0.0.1")>>
    /\ consec = <<0>>
    /\ ret = [op |-> "get_next_proxy", val |-> <<ProxyDict(proxies, 1)>>,
              rows |-> <<>>, id |-> 0, outcome |-> <<>>]
    /\ now = 1
    /\ \E pf \in Frequencies, cf \in Frequencies :
          config = [DefaultConfig EXCEPT !.post_frequency = pf,
                                         !.comment_frequency = cf]
    /\ accounts = [a \in AccountIds |-> NewAccountRow]
    /\ activity_log = <<>>
    /\ jobs = [j \in JobIds |->
                 [scheduled |-> TRUE, interval |-> 1, next_run |-> 1, fired |-> NULL]]
    /\ \E j \in PostCommentJobs :
          run = [IdleRun EXCEPT !.pc = "next", !.job = j, !.success = "ok",
                                !.post_id = "none"]
    /\ mode = "deferred"
    /\ workers = <<>>
    /\ saved = <<>>

TimingNext == \E base \in 1..MaxHours, sign \in {-1, 1} : JobScheduleNext(base, sign)

SpecTiming == TimingInit /\ [][TimingNext]_vars

\* --------------------------------------------- scheduler: immediate mode
\* config.json of the immediate runs: the deferred one with max_daily_actions
ImmediateConfigs == {[max_daily_actions |-> 2] @@ c : c \in SchedConfigs}

\* random.randint(max(1, max_actions // 2), max_actions)
PlanRange(max_actions) == Max(1, max_actions \div 2)..max_actions

\* max(1, int(num_actions * 0.3))
num_posts(num_actions) == Max(1, (num_actions * 3) \div 10)

\* the frame of a thread that has just been started on _run_account_engagement;
\* posted and commented tally the UPDATE statements of the thread that
\* have completed
NewWorker ==
    [pc |-> "plan", loop |-> "post", num_posts |-> 0, num_comments |-> 0, i |-> 0,
     proxy |-> None, posted |-> 0, commented |-> 0]

\* the frame of the main thread in run_activities: the rows fetched and the
\* position of the for-loop in them
MainRun(fetched, next) == [pc |-> "run_activities", accounts |-> fetched, next |-> next]

\* WHERE [username IN (...) AND] account_status = 'active' of run_activities;
\* an empty or missing list selects every active account
SelectedForRun(acc, a, specific) ==
    /\ acc[a].present
    /\ acc[a].account_status = "active"
    /\ specific # {} => a \in specific

RECURSIVE Ascending(_)
\* the rows of a set of ids in the order the SELECT gives them
Ascending(ids) ==
    IF ids = {} THEN <<>>
    ELSE LET m == CHOOSE x \in ids : \A y \in ids : x <= y
         IN  <<m>> \o Ascending(ids \ {m})

\* run_engagement(scheduled=False, accounts) calls run_activities: the SELECT
RunActivities(specific) ==
    /\ mode = "cli"
    /\ mode' = "immediate"
    /\ run' = MainRun(Ascending({a \in AccountIds :
                                    SelectedForRun(accounts, a, specific)}), 1)
    /\ UNCHANGED <<poolVars, now, config, accounts, activity_log, jobs, workers, saved>>

\* one turn of the for-loop of run_activities: the thread is made a daemon,
\* started and put into running_threads, then the main thread sleeps 5-15 s
StartThread ==
    /\ mode = "immediate" /\ run.pc = "run_activities"
    /\ run.next <= Len(run.accounts)
    /\ workers' = (run.accounts[run.next] :> NewWorker) @@ workers
    /\ run' = [run EXCEPT !.next = @ + 1]
    /\ UNCHANGED <<poolVars, now, config, accounts, activity_log, jobs, mode, saved>>

\* run_activities returns (at once when no account was fetched), then
\* run_engagement and main return and the interpreter exits: the daemon
\* threads are stopped where they are
MainReturn ==
    /\ mode = "immediate" /\ run.pc = "run_activities"
    /\ run.next > Len(run.accounts)
    /\ mode' = "exited"
    /\ run' = [run EXCEPT !.pc = "returned"]
    /\ UNCHANGED <<poolVars, now, config, accounts, activity_log, jobs, workers, saved>>

\* a thread of the process can take a step
Alive(a, pc) == mode = "immediate" /\ a \in DOMAIN workers /\ workers[a].pc = pc

\* the step a worker takes next changes its frame only
WorkerLocal(a, frame) ==
    /\ workers' = [workers EXCEPT ![a] = frame]
    /\ UNCHANGED <<poolVars, now, config, accounts, activity_log, jobs, run, mode, saved>>

\* the head of _run_account_engagement: the number of actions is drawn and
\* split into posts and comments
WorkerPlan(a, num_actions) ==
    /\ Alive(a, "plan")
    /\ WorkerLocal(a, [workers[a] EXCEPT !.pc = "loop",
                                         !.num_posts = num_posts(num_actions),
                                         !.num_comments = num_actions - num_posts(num_actions)])

\* the number of turns the loop a worker is in was planned with
Planned(w) == IF w.loop = "post" THEN w.num_posts ELSE w.num_comments

\* the loops of _run_account_engagement with continue in the place of break:
\* a turn outside the activity hours is passed over and the loop goes on
WorkerLoop_Continue(a) ==
    /\ Alive(a, "loop")
    /\ LET w == workers[a]
       IN  WorkerLocal(a,
             IF w.i < Planned(w)
             THEN IF is_within_activity_hours(config, now)
                  THEN [w EXCEPT !.pc = "begin", !.i = @ + 1]
                  ELSE [w EXCEPT !.pc = "sleep", !.i = @ + 1]
             ELSE IF w.loop = "post"
             THEN [w EXCEPT !.loop = "comment", !.i = 0]
             ELSE [w EXCEPT !.pc = "done"])

\* "for i in range(...)": the loop ends when its turns are used up or when
\* the clock is outside the activity hours (break); after the loop over the
\* posts comes the loop over the comments, after that the thread ends
WorkerLoop(a) ==
    /\ Alive(a, "loop")
    /\ LET w == workers[a]
       IN  WorkerLocal(a,
             IF w.i < Planned(w) /\ is_within_activity_hours(config, now)
             THEN [w EXCEPT !.pc = "begin", !.i = @ + 1]
             ELSE IF w.loop = "post"
             THEN [w EXCEPT !.loop = "comment", !.i = 0]
             ELSE [w EXCEPT !.pc = "done"])

\* _create_post_job / _create_comment_job called by the worker:
\* get_account_details, then the activity window test; what the job function
\* returns is dropped and the worker goes on to its sleep
WorkerBegin(a) ==
    /\ Alive(a, "begin")
    /\ WorkerLocal(a,
          IF AccountFound(accounts, a) /\ is_within_activity_hours(config, now)
          THEN [workers[a] EXCEPT !.pc = "proxy"]
          ELSE [workers[a] EXCEPT !.pc = "sleep"])

\* get_next_proxy, first half: get_available_proxies (one SELECT), the sort
\* and the choice of the first proxy
WorkerProxyRead(a) ==
    /\ Alive(a, "proxy")
    /\ LET proxy == get_next_proxy(proxies, now).ret
       IN  WorkerLocal(a, [workers[a] EXCEPT
                              !.proxy = proxy,
                              !.pc = IF proxy = None THEN "sleep" ELSE "stamp"])

\* get_next_proxy, second half: UPDATE proxies SET last_used = ? WHERE id = ?
\* on a connection of its own, then the proxy is returned
WorkerProxyStamp(a) ==
    /\ Alive(a, "stamp")
    /\ proxies' = [proxies EXCEPT ![workers[a].proxy[1].id].last_used = now]
    /\ ret' = [op |-> "get_next_proxy", val |-> workers[a].proxy, rows |-> <<>>,
               id |-> a, outcome |-> <<>>]
    /\ workers' = [workers EXCEPT ![a].pc = "login"]
    /\ UNCHANGED <<consec, now, config, accounts, activity_log, jobs, run, mode, saved>>

\* reddit_client.login, then submit_post or submit_comment: the login fails,
\* or the submission gives no id, or it gives one
WorkerSubmit(a, outcome) ==
    /\ Alive(a, "login")
    /\ WorkerLocal(a, [workers[a] EXCEPT !.pc = IF outcome = "id" THEN "log" ELSE "sleep"])

\* _log_activity(account_id, kind, ..., "success")
WorkerLogActivity(a) ==
    /\ Alive(a, "log")
    /\ activity_log' = Append(activity_log,
           [account |-> a, activity_type |-> workers[a].loop, status |-> "success"])
    /\ workers' = [workers EXCEPT ![a].pc = "update"]
    /\ UNCHANGED <<poolVars, now, config, accounts, jobs, run, mode, saved>>

\* the UPDATE of the counter and the date of the account: one statement
WorkerUpdateAccount(a) ==
    /\ Alive(a, "update")
    /\ accounts' = update_account(accounts, a, workers[a].loop, now)
    /\ workers' = [workers EXCEPT
                      ![a].pc = "sleep",
                      ![a].posted = IF workers[a].loop = "post" THEN @ + 1 ELSE @,
                      ![a].commented = IF workers[a].loop = "comment" THEN @ + 1 ELSE @]
    /\ UNCHANGED <<poolVars, now, config, activity_log, jobs, run, mode, saved>>

\* time.sleep(delay) after the job function: the thread runs again after any
\* number of clock hours
WorkerWake(a) ==
    /\ Alive(a, "sleep")
    /\ WorkerLocal(a, [workers[a] EXCEPT !.pc = "loop"])

ImmediateInit ==
    /\ proxies \in SchedPools
    /\ consec = [i \in 1..Len(proxies) |-> 0]
    /\ ret = [op |-> "init", val |-> None, rows |-> <<>>, id |-> 0, outcome |-> <<>>]
    /\ now = 1
    /\ config \in ImmediateConfigs
    /\ accounts \in [AccountIds -> {NewAccountRow, AbsentAccountRow}]
    /\ activity_log = <<>>
    /\ jobs = [j \in JobIds |-> NoJob]
    /\ run = IdleRun
    /\ mode = "cli"
    /\ workers = <<>>
    /\ saved = <<>>

ImmediateNext ==
    \/ \E specific \in SUBSET AccountIds : RunActivities(specific)
    \/ StartThread
    \/ MainReturn
    \/ \E a \in AccountIds, num_actions \in PlanRange(config.max_daily_actions) :
          WorkerPlan(a, num_actions)
    \/ \E a \in AccountIds : WorkerLoop(a)
    \/ \E a \in AccountIds : WorkerBegin(a)
    \/ \E a \in AccountIds : WorkerProxyRead(a)
    \/ \E a \in AccountIds : WorkerProxyStamp(a)
    \/ \E a \in AccountIds, outcome \in {"login_failed", "no_id", "id"} :
          WorkerSubmit(a, outcome)
    \/ \E a \in AccountIds : WorkerLogActivity(a)
    \/ \E a \in AccountIds : WorkerUpdateAccount(a)
    \/ \E a \in AccountIds : WorkerWake(a)
    \/ TickDeferred

SpecImmediate == ImmediateInit /\ [][ImmediateNext]_vars

\* ------------------------------------- one worker, any max_daily_actions
MaxActions == 7          \* largest max_daily_actions a configuration is drawn with

\* config.json with max_daily_actions from 1 up
PlanConfigs ==
    {[c EXCEPT !.max_daily_actions = m] : c \in ImmediateConfigs, m \in 1..MaxActions}

PlanInit ==
    /\ proxies = <<FreshProxy("10.0.0.1"), FreshProxy("10.0.0.2")>>
    /\ consec = [i \in 1..Len(proxies) |-> 0]
    /\ ret = [op |-> "init", val |-> None, rows |-> <<>>, id |-> 0, outcome |-> <<>>]
    /\ now = 1
    /\ config \in PlanConfigs
    /\ accounts = [a \in AccountIds |-> IF a = 1 THEN NewAccountRow ELSE AbsentAccountRow]
    /\ activity_log = <<>>
    /\ jobs = [j \in JobIds |-> NoJob]
    /\ run = IdleRun
    /\ mode = "cli"
    /\ workers = <<>>
    /\ saved = <<>>

SpecPlan == PlanInit /\ [][ImmediateNext]_vars

\* ------------------------------------------ the counter statements alone
\* the UPDATE that ends a successful post or comment of the thread working
\* for account a: one statement on a connection of its own
CountAction(a, func) ==
    /\ accounts[a].total_posts + accounts[a].total_comments < MaxLog
    /\ accounts' = update_account(accounts, a, func, now)
    /\ workers' = [workers EXCEPT
                      ![a].loop = func,
                      ![a].posted = IF func = "post" THEN @ + 1 ELSE @,
                      ![a].commented = IF func = "comment" THEN @ + 1 ELSE @]
    /\ UNCHANGED <<poolVars, now, config, activity_log, jobs, run, mode, saved>>

\* two threads at work on two accounts with two proxies loaded, no counter
\* written yet
CountersInit ==
    /\ proxies = <<FreshProxy("10.0.0.1"), FreshProxy("10.0.0.2")>>
    /\ consec = [i \in 1..Len(proxies) |-> 0]
    /\ ret = [op |-> "init", val |-> None, rows |-> <<>>, id |-> 0, outcome |-> <<>>]
    /\ now = 1
    /\ config \in ImmediateConfigs
    /\ accounts = [a \in AccountIds |-> NewAccountRow]
    /\ activity_log = <<>>
    /\ jobs = [j \in JobIds |-> NoJob]
    /\ run = MainRun(<<1, 2>>, 3)
    /\ mode = "immediate"
    /\ workers = [a \in AccountIds |-> [NewWorker EXCEPT !.pc = "update"]]
    /\ saved = <<>>

\* the statements that write a counter, in any order the threads and
\* processes sharing the database issue them
CountersNext ==
    \/ \E id \in 1..Len(proxies) : ReportFailure(id)
    \/ \E a \in AccountIds, func \in {"post", "comment"} : CountAction(a, func)

SpecCounters == CountersInit /\ [][CountersNext]_vars

\* ------------------------------------------------ the credential store
MaxPw == 2               \* longest password, in characters

Chars == {"a", "Z", "!"}         \* characters _generate_password draws from
Bytes == 0..2
Keys == {1, 2}                   \* Fernet keys
IVs == {0, 1}                    \* what Fernet.encrypt draws for a token

Passwords == UNION {[1..n -> Chars] : n \in 1..MaxPw}

\* str.encode() and bytes.decode(), character by character
CharByte(c) == CASE c = "a" -> 0 [] c = "Z" -> 1 [] OTHER -> 2
ByteChar(b) == CASE b = 0 -> "a" [] b = 1 -> "Z" [] OTHER -> "!"
Encode(text) == [i \in 1..Len(text) |-> CharByte(text[i])]
Decode(bytes) == [i \in 1..Len(bytes) |-> ByteChar(bytes[i])]

RECURSIVE CbcEncrypt(_, _, _)
\* the cipher of a Fernet token: each block is mixed with the key and with the
\* cipher block before it, the first one with the IV
CbcEncrypt(key, prev, bytes) ==
    IF bytes = <<>> THEN <<>>
    ELSE LET c == (Head(bytes) + prev + key) % 3
         IN  <<c>> \o CbcEncrypt(key, c, Tail(bytes))

RECURSIVE CbcDecrypt(_, _, _)
CbcDecrypt(key, prev, cipher) ==
    IF cipher = <<>> THEN <<>>
    ELSE <<(Head(cipher) + 6 - prev - key) % 3>>
           \o CbcDecrypt(key, Head(cipher), Tail(cipher))

RECURSIVE SumOf(_)
SumOf(bytes) == IF bytes = <<>> THEN 0 ELSE Head(bytes) + SumOf(Tail(bytes))

\* the HMAC of a token under the key
Mac(key, iv, cipher) == (7 * key + 3 * iv + SumOf(cipher)) % 11

\* _encrypt: cipher_suite.encrypt(text.encode()) (the token is kept as text)
encrypt(key, iv, text) ==
    LET cipher == CbcEncrypt(key, iv, Encode(text))
    IN  [iv |-> iv, cipher |-> cipher, mac |-> Mac(key, iv, cipher)]

\* _decrypt with every block unmixed with the IV, not with the block before it
decrypt_NoChain(key, token) ==
    IF token.mac # Mac(key, token.iv, token.cipher) THEN None
    ELSE <<Decode([i \in 1..Len(token.cipher) |->
                      (token.cipher[i] + 6 - token.iv - key) % 3])>>

\* _decrypt: cipher_suite.decrypt(token.encode()).decode(); None stands for the
\* InvalidToken a token with a wrong HMAC raises
decrypt(key, token) ==
    IF token.mac # Mac(key, token.iv, token.cipher) THEN None
    ELSE <<Decode(CbcDecrypt(key, token.iv, token.cipher))>>

\* config.json with the encryption key AccountManager.__init__ keeps in it
StoreConfig(key) == [encryption_key |-> key] @@ DefaultConfig

\* the row _save_account INSERTs, with its password_encrypted column
StoredRow(token) == [password_encrypted |-> token] @@ NewAccountRow

\* _save_account(username, password, ...); username is UNIQUE, a second
\* INSERT for it raises and stores nothing
SaveAccount(a, password, iv) ==
    /\ ~accounts[a].present
    /\ accounts' = [accounts EXCEPT
                       ![a] = StoredRow(encrypt(config.encryption_key, iv, password))]
    /\ saved' = (a :> password) @@ saved
    /\ ret' = [op |-> "save_account", val |-> None, rows |-> <<>>, id |-> a,
               outcome |-> <<>>]
    /\ UNCHANGED <<proxies, consec, now, config, activity_log, jobs, run, mode, workers>>

\* get_account_details(username): the row as a dict with the password
\* decrypted, None when there is no row
GetAccountDetails(a) ==
    /\ ret' = [op |-> "get_account_details",
               val |-> IF accounts[a].present
                       THEN <<[username |-> a,
                               password |-> decrypt(config.encryption_key,
                                                    accounts[a].password_encrypted)]>>
                       ELSE None,
               rows |-> <<>>, id |-> a, outcome |-> <<>>]
    /\ UNCHANGED <<proxies, consec, now, schedVars>>

\* export_accounts: every row with its password decrypted
ExportAccounts ==
    /\ ret' = [op |-> "export_accounts",
               val |-> <<[a \in {b \in AccountIds : accounts[b].present} |->
                            decrypt(config.encryption_key,
                                    accounts[a].password_encrypted)]>>,
               rows |-> <<>>, id |-> 0, outcome |-> <<>>]
    /\ UNCHANGED <<proxies, consec, now, schedVars>>

StoreInit ==
    /\ proxies = <<>>
    /\ consec = <<>>
    /\ ret = [op |-> "init", val |-> None, rows |-> <<>>, id |-> 0, outcome |-> <<>>]
    /\ now = 1
    /\ config \in {StoreConfig(key) : key \in Keys}
    /\ accounts = [a \in AccountIds |-> AbsentAccountRow]
    /\ activity_log = <<>>
    /\ jobs = [j \in JobIds |-> NoJob]
    /\ run = IdleRun
    /\ mode = "cli"
    /\ workers = <<>>
    /\ saved = <<>>

StoreNext ==
    \/ \E a \in AccountIds, password \in Passwords, iv \in IVs :
          SaveAccount(a, password, iv)
    \/ \E a \in AccountIds : GetAccountDetails(a)
    \/ ExportAccounts

SpecStore == StoreInit /\ [][StoreNext]_vars

\* ------------------------------------------------ schedule setup alone
\* the rows an accounts table can hold for an id: none, active, suspended
AccountRows ==
    {AbsentAccountRow, NewAccountRow,
     [NewAccountRow EXCEPT !.account_status = "suspended"]}

\* schedule.jobs is a list of the schedule module: what an earlier
\* schedule_activities call of the same interpreter left in it
LeftoverJobs ==
    [JobIds -> {NoJob, [scheduled |-> TRUE, interval |-> 1, next_run |-> 1, fired |-> NULL]}]

\* schedule_activities is called on any accounts table and any job list
SetupInit ==
    /\ proxies = <<>>
    /\ consec = <<>>
    /\ ret = [op |-> "init", val |-> None, rows |-> <<>>, id |-> 0, outcome |-> <<>>]
    /\ now = 1
    /\ config \in SchedConfigs
    /\ accounts \in [AccountIds -> AccountRows]
    /\ activity_log = <<>>
    /\ jobs \in LeftoverJobs
    /\ run = IdleRun
    /\ mode = "cli"
    /\ workers = <<>>
    /\ saved = <<>>

SetupNext ==
    \E specific \in SUBSET AccountIds, first \in [PostCommentJobs -> 1..MaxHours] :
        ScheduleActivities(specific, first)

SpecSetup == SetupInit /\ [][SetupNext]_vars

\* --------------------------------------- the activity window test alone
ActivityHours == {w \in [start : 0..23, end : 0..23] : w.start <= w.end}

\* a post and a comment job are due in the run-loop, at any hour of the day
\* and under any configured window
WindowInit ==
    /\ proxies = <<>>
    /\ consec = <<>>
    /\ ret = [op |-> "init", val |-> None, rows |-> <<>>, id |-> 0, outcome |-> <<>>]
    /\ now \in 1..24
    /\ \E w \in ActivityHours : config = [DefaultConfig EXCEPT !.activity_hours = w]
    /\ accounts = [a \in AccountIds |-> NewAccountRow]
    /\ activity_log = <<>>
    /\ jobs = [j \in JobIds |->
                 IF j \in PostCommentJobs
                 THEN [scheduled |-> TRUE, interval |-> 1, next_run |-> now, fired |-> NULL]
                 ELSE NoJob]
    /\ run = IdleRun
    /\ mode = "deferred"
    /\ workers = <<>>
    /\ saved = <<>>

WindowNext == \E j \in PostCommentJobs, db_ok \in BOOLEAN : JobBegin(j, db_ok)

SpecWindow == WindowInit /\ [][WindowNext]_vars

PoolInit ==
    /\ proxies = <<>>
    /\ consec = <<>>
    /\ ret = [op |-> "init", val |-> None, rows |-> <<>>, id |-> 0, outcome |-> <<>>]
    /\ now = 1
    /\ config = DefaultConfig
    /\ accounts = [a \in AccountIds |-> NewAccountRow]
    /\ activity_log = <<>>
    /\ jobs = [j \in JobIds |-> NoJob]
    /\ run = IdleRun
    /\ mode = "cli"
    /\ workers = <<>>
    /\ saved = <<>>

\* ------------------------------------- both modes, any activity window
\* config.json with the window as it is, or with a start hour after the end
\* hour (nothing validates the two values)
HoursConfigs ==
    ImmediateConfigs \cup
    {w \in {[c EXCEPT !.activity_hours = [start |-> s, end |-> e]] :
                c \in ImmediateConfigs, s \in {2, 3, 23}, e \in {0, 2, 3}} :
        w.activity_hours.start > w.activity_hours.end}

HoursInit ==
    /\ proxies = <<FreshProxy("10.0.0.1"), FreshProxy("10.0.0.2")>>
    /\ consec = [i \in 1..Len(proxies) |-> 0]
    /\ ret = [op |-> "init", val |-> None, rows |-> <<>>, id |-> 0, outcome |-> <<>>]
    /\ now = 1
    /\ config \in HoursConfigs
    /\ accounts = [a \in AccountIds |-> IF a = 1 THEN NewAccountRow ELSE AbsentAccountRow]
    /\ activity_log = <<>>
    /\ jobs = [j \in JobIds |-> NoJob]
    /\ run = IdleRun
    /\ mode = "cli"
    /\ workers = <<>>
    /\ saved = <<>>

\* main.py engage, with --schedule or without
HoursNext ==
    \/ Next
    \/ ImmediateNext

SpecHours == HoursInit /\ [][HoursNext]_vars

\* ------------------------------------------------- the rotation alone
\* the frame of a caller that makes one get_next_proxy call after the other
\* and keeps the ids it was given
CallerRun(got) == [pc |-> "caller", got |-> got]

\* a row that went inactive after five counted failures
WornProxy(ip) == [FreshProxy(ip) EXCEPT !.status = "inactive", !.failure_count = 5]

\* tables of one to three loaded rows, each never used or last used at hour
\* 0, some of them inactive
RotationPools ==
    LET rows(ip) == {FreshProxy(ip), [FreshProxy(ip) EXCEPT !.last_used = 0],
                     WornProxy(ip)}
    IN  { <<a>> : a \in rows("10.0.0.1") }
        \cup { <<a, b>> : a \in rows("10.0.0.1"), b \in rows("10.0.0.2") }
        \cup { <<a, b, c>> : a \in rows("10.0.0.1"), b \in rows("10.0.0.2"),
                             c \in rows("10.0.0.3") }

\* the next get_next_proxy call of the caller: datetime.now() is read to the
\* microsecond, so the call stamps a later time than every call before it
AcquireNext ==
    /\ \A i \in 1..Len(proxies) : proxies[i].last_used < now
    /\ LET r == get_next_proxy(proxies, now)
       IN  /\ proxies' = r.table
           /\ ret' = [op |-> "get_next_proxy", val |-> r.ret, rows |-> <<>>,
                      id |-> 0, outcome |-> <<>>]
           /\ run' = IF r.ret = None THEN run
                     ELSE CallerRun(Append(run.got, r.ret[1].id))
    /\ UNCHANGED <<consec, now, config, accounts, activity_log, jobs, mode, workers, saved>>

RotationInit ==
    /\ proxies \in RotationPools
    /\ consec = [i \in 1..Len(proxies) |-> 0]
    /\ ret = [op |-> "init", val |-> None, rows |-> <<>>, id |-> 0, outcome |-> <<>>]
    /\ now = 1
    /\ config = DefaultConfig
    /\ accounts = [a \in AccountIds |-> NewAccountRow]
    /\ activity_log = <<>>
    /\ jobs = [j \in JobIds |-> NoJob]
    /\ run = CallerRun(<<>>)
    /\ mode = "cli"
    /\ workers = <<>>
    /\ saved = <<>>

RotationNext ==
    \/ AcquireNext
    \/ Tick

SpecRotation == RotationInit /\ [][RotationNext]_vars

\* files of at most one record: they build every table the pool can hold
ShortBatches == {rows \in Batches : Len(rows) <= 1}

PoolNext ==
    \/ \E rows \in ShortBatches : LoadProxies(rows)
    \/ GetNextProxy
    \/ \E id \in 1..Len(proxies) : ReportFailure(id)
    \/ \E id \in 1..Len(proxies) : ReportHealthy(id)
    \/ \E outcome \in [1..Len(proxies) -> TestOutcomes] : RotateProxies(outcome)
    \/ Tick

SpecPool == PoolInit /\ [][PoolNext]_vars

\* ------------------------------------- the pool under a running system
\* the calls the running program makes on the pool: load_proxies at a
\* registration, get_next_proxy in the jobs and threads, rotate_proxies in the
\* periodic job; nothing in it calls reset_failure_count or
\* _increment_failure_count on its own
RunningNext ==
    \/ \E rows \in ShortBatches : LoadProxies(rows)
    \/ GetNextProxy
    \/ \E outcome \in [1..Len(proxies) -> TestOutcomes] : RotateProxies(outcome)
    \/ Tick

SpecRunning == PoolInit /\ [][RunningNext]_vars

\* ------------------------------------------------ load_proxies on any file
\* files of up to MaxBatch records, well-formed or not, are loaded into a
\* table whose rows have been handed out and have failed in between
LoadNext ==
    \/ \E rows \in Batches : LoadProxies(rows)
    \/ GetNextProxy
    \/ \E id \in 1..Len(proxies) : ReportFailure(id)

SpecLoad == PoolInit /\ [][LoadNext]_vars

\* -------------------------------------------------- claims, the scheduler
\* the step in which the run-loop starts the job function of run'.job and the
\* account lookup does not raise
FireStep == run.pc = "idle" /\ run'.pc \notin {"idle", "dead"}

\* a step re-arms a job or takes one out of the table
Rearmed ==
    \E k \in JobIds : [jobs'[k] EXCEPT !.fired = NULL] # [jobs[k] EXCEPT !.fired = NULL]

\* the step in which a job function that returned hands over to schedule
ReturnStep == run.pc = "return" /\ run'.pc = "idle"

\* C4: after an execution of a post or comment job that computed a new
\* interval, the job's next fire time is the time of its return plus that
\* interval.
C4_NextRunFromComputedInterval ==
    [][(ReturnStep /\ run.ret.kind = "hours") =>
          jobs'[run.job].next_run * 100 = now * 100 + run.ret.hours]_vars

\* C5: a job that fires when its account is not in the store returns
\* CancelJob, is then removed from the job table while every other job keeps
\* its entry, a removed job never comes back, and only jobs in the table fire.
C5_MissingAccountCancelsJob ==
    [][/\ (FireStep /\ ~accounts[run'.job.account].present) =>
            (run'.pc = "return" /\ run'.ret.kind = "cancel")
       /\ (ReturnStep /\ run.ret.kind = "cancel") =>
            /\ ~jobs'[run.job].scheduled
            /\ \A k \in JobIds \ {run.job} : jobs'[k] = jobs[k]
       /\ mode = "deferred" =>
            \A j \in JobIds : ~jobs[j].scheduled => ~jobs'[j].scheduled
       /\ FireStep => jobs[run'.job].scheduled
    ]_vars

\* the post job was cancelled for its deleted account; the comment job and the
\* maintenance jobs are still in the table
C5_Witness ==
    /\ mode = "deferred" /\ run.pc = "idle"
    /\ \E a \in AccountIds :
          /\ ~accounts[a].present
          /\ ~jobs[[func |-> "post", account |-> a]].scheduled
          /\ jobs[[func |-> "comment", account |-> a]].scheduled
    /\ jobs[CheckStatusJob].scheduled /\ jobs[RotateJob].scheduled

\* C6: a job that fires outside the activity window for an account that
\* exists goes straight to its return with None: the proxies, accounts and
\* activity_log tables are untouched by the firing and by the return, no
\* login or submission follows, and the job is still in the table after it.
C6_OffHoursSkip ==
    [][/\ ( /\ FireStep
            /\ accounts[run'.job.account].present
            /\ ~(config.activity_hours.start <= now % 24 /\
                 now % 24 <= config.activity_hours.end) ) =>
            /\ run'.pc = "return" /\ run'.ret.kind = "none"
            /\ run'.success = "unset" /\ run'.post_id = "unset"
            /\ UNCHANGED <<proxies, accounts, activity_log>>
            /\ ~Rearmed
       /\ (run.pc = "return" /\ run' # run) =>
            /\ run'.pc = "idle"
            /\ UNCHANGED <<proxies, accounts, activity_log>>
            /\ run.ret.kind = "none" => jobs'[run.job].scheduled
    ]_vars

\* a job was skipped for the hour: it is at its return without a login, its
\* account exists, and proxies were there to take but none was ever stamped
C6_Witness ==
    /\ run.pc = "return" /\ run.ret.kind = "none" /\ run.success = "unset"
    /\ accounts[run.job.account].present
    /\ ~(config.activity_hours.start <= now % 24 /\
         now % 24 <= config.activity_hours.end)
    /\ Len(proxies) > 0
    /\ \A i \in 1..Len(proxies) :
          proxies[i].status = "active" /\ proxies[i].last_used = NULL

\* C7: a job that fires for an account that exists with a status other than
\* active is skipped: it goes straight to its return with None, so that no
\* proxy is taken and no login made.
C7_InactiveAccountSkip ==
    [][( /\ FireStep
         /\ accounts[run'.job.account].present
         /\ accounts[run'.job.account].account_status # "active" ) =>
          (run'.pc = "return" /\ run'.ret.kind = "none")
    ]_vars

\* C8: an exception raised in a job never ends the run-loop: the process
\* never exits.
C8_ExceptionContained == mode # "exited"

\* C9: when a job function that reached login returns, the activity log has
\* exactly one record more than when it started, for its account and kind,
\* with status success if the submission returned an id and a failure status
\* if not.
C9_OneRecordPerAttempt ==
    (run.pc = "return" /\ run.success # "unset") =>
        /\ Len(activity_log) = run.log0 + 1
        /\ activity_log[Len(activity_log)].account = run.job.account
        /\ activity_log[Len(activity_log)].activity_type = run.job.func
        /\ (activity_log[Len(activity_log)].status = "success") <=> (run.post_id = "id")

\* C10: the interval a post or comment job computes is at least min_hours of
\* its frequency section, whatever max_hours, variance_percent and the draws.
C10_IntervalAtLeastMin ==
    run.ret.kind = "hours" =>
        run.ret.hours >=
            100 * (IF run.job.func = "post" THEN config.post_frequency.min_hours
                   ELSE config.comment_frequency.min_hours)

\* the perturbation went below min_hours and the floor gave min_hours
C10_Witness ==
    /\ run.ret.kind = "hours" /\ run.ret.sign = -1
    /\ LET f == IF run.job.func = "post" THEN config.post_frequency
                ELSE config.comment_frequency
       IN  /\ f.variance_percent > 0 /\ f.min_hours < f.max_hours
           /\ run.ret.base > f.min_hours
           /\ 100 * run.ret.base - run.ret.base * f.variance_percent < 100 * f.min_hours
           /\ run.ret.hours = 100 * f.min_hours

\* ------------------------------------------------------- claims, the pool
\* a get_next_proxy call has just returned a proxy
Returned == ret.op = "get_next_proxy" /\ ret.val # None

\* C1: every proxy returned by get_next_proxy has status active and a failure
\* count below 5 at the time of the call, in the dict handed out and in its
\* row of the table.
C1_AcquiredIsAvailable ==
    Returned =>
        /\ ret.val[1].status = "active" /\ ret.val[1].failure_count < 5
        /\ proxies[ret.val[1].id].status = "active"
        /\ proxies[ret.val[1].id].failure_count < 5

\* a proxy was returned while another row of the table was inactive
C1_Witness ==
    /\ Returned
    /\ \E i \in 1..Len(proxies) :
          i # ret.val[1].id /\ proxies[i].status = "inactive"

\* C2: a proxy that has had 5 (or more) _increment_failure_count calls in a
\* row since its failure count was 0, with no reset in between, is inactive.
C2_FiveFailuresInactive ==
    \A i \in 1..Len(proxies) : consec[i] >= 5 => proxies[i].status = "inactive"

\* the fifth consecutive failure has just been reported
C2_Witness ==
    /\ ret.op = "increment_failure_count"
    /\ \E i \in 1..Len(proxies) :
          consec[i] = 5 /\ proxies[i].status = "inactive"

\* the step is a get_next_proxy call that returned a proxy
AcquireStep ==
    /\ ret'.op = "get_next_proxy" /\ ret'.val # None
    /\ ret' # ret \/ proxies' # proxies

\* C3: the proxy get_next_proxy returns is one of the rows that were available
\* at the call and no available row has an older last_used, a NULL last_used
\* counting as older than every stamp; so if an available row was never used,
\* the returned one was never used.
C3_LeastRecentlyUsed ==
    [][AcquireStep =>
        LET r == ret'.val[1]
            Age(x) == IF x = NULL THEN 0 ELSE x
            Avail(i) == proxies[i].status = "active" /\ proxies[i].failure_count < 5
        IN  /\ r.id \in 1..Len(proxies) /\ Avail(r.id)
            /\ r.last_used = proxies[r.id].last_used
            /\ \A i \in 1..Len(proxies) :
                  Avail(i) => /\ Age(r.last_used) <= Age(proxies[i].last_used)
                              /\ proxies[i].last_used = NULL => r.last_used = NULL
    ]_vars

\* P2, never used, was returned although P1, an earlier row, is available and
\* was used before
C3_Witness ==
    /\ Returned
    /\ ret.val[1].last_used = NULL
    /\ \E i \in 1..Len(proxies) :
          /\ i < ret.val[1].id
          /\ proxies[i].status = "active" /\ proxies[i].failure_count < 5
          /\ proxies[i].last_used # NULL

\* ------------------------------------------------ claims, load_proxies
\* the number a well-formed port text stands for
PortNumber(text) == IF text = "8080" THEN 8080 ELSE NULL

\* the rows of the table that hold the host and port of a record of the file
RowsFor(rec) ==
    {i \in 1..Len(proxies) :
        proxies[i].ip = rec.ip /\ proxies[i].port = PortNumber(rec.port)}

\* every record of the file read last has a port that is a number
FileWellFormed == \A k \in 1..Len(ret.rows) : ret.rows[k].port # BadPort

\* C11: load is idempotent on host+port: no two rows of the table ever share
\* host and port; right after a load, loading the same file again would leave
\* the table as it is (load(S);load(S) = load(S)); and after the load of a
\* well-formed file each record of the file, however often it occurs in the
\* file or was loaded before, has exactly one row.
C11_LoadIdempotent ==
    /\ \A i, j \in 1..Len(proxies) :
          (proxies[i].ip = proxies[j].ip /\ proxies[i].port = proxies[j].port)
              => i = j
    /\ ret.op = "load_proxies" =>
          /\ load_proxies(proxies, ret.rows) = proxies
          /\ FileWellFormed =>
                \A k \in 1..Len(ret.rows) : Cardinality(RowsFor(ret.rows[k])) = 1

\* a file with the same host+port twice was loaded over a table that held that
\* host+port already (its row has failures on it): one row for it
C11_Witness ==
    /\ ret.op = "load_proxies" /\ Len(ret.rows) = 2
    /\ ret.rows[1] = ret.rows[2] /\ FileWellFormed
    /\ RowsFor(ret.rows[1]) # {}
    /\ \A i \in RowsFor(ret.rows[1]) : proxies[i].failure_count > 0

\* C12: a malformed record in a file fails alone: after the load every
\* well-formed record of the file, before or after the bad one, has a row.
C12_BadRecordFailsAlone ==
    ret.op = "load_proxies" =>
        \A k \in 1..Len(ret.rows) :
            ret.rows[k].port # BadPort => RowsFor(ret.rows[k]) # {}
\* ------------------------------------------ claims, the failure counter
\* the step is a call of the ProxyManager method op
CallStep(op) == ret'.op = op /\ (ret' # ret \/ proxies' # proxies)

\* the row was available: status active and fewer than 5 failures
Eligible(row) == row.status = "active" /\ row.failure_count < 5

\* the rows other than id are what they were
OthersUnchanged(id) ==
    /\ Len(proxies') = Len(proxies)
    /\ \A i \in 1..Len(proxies) : i # id => proxies'[i] = proxies[i]

\* C13: in every reachable state each proxy with a failure count of 5 or more
\* has status inactive.
C13_ThresholdInactive ==
    \A i \in 1..Len(proxies) :
        proxies[i].failure_count >= 5 => proxies[i].status = "inactive"

\* one proxy went on failing past the threshold, another is still below it
C13_Witness ==
    \E i, j \in 1..Len(proxies) :
        /\ proxies[i].failure_count > 5 /\ proxies[i].status = "inactive"
        /\ proxies[j].failure_count \in 1..4 /\ proxies[j].status = "active"

\* C14: reset_failure_count leaves the named proxy with failure count 0 and
\* status active, so available again, whatever it was before; its other
\* columns and every other row are unchanged.
C14_ResetMakesAvailable ==
    [][CallStep("reset_failure_count") =>
        LET id == ret'.id
        IN  /\ id \in 1..Len(proxies)
            /\ proxies'[id].failure_count = 0 /\ proxies'[id].status = "active"
            /\ Eligible(proxies'[id])
            /\ proxies'[id].ip = proxies[id].ip
            /\ proxies'[id].port = proxies[id].port
            /\ proxies'[id].last_used = proxies[id].last_used
            /\ OthersUnchanged(id)
    ]_vars

\* a proxy that had been handed out was reset while the other one stays
\* inactive with its failures
C14_Witness ==
    /\ ret.op = "reset_failure_count"
    /\ proxies[ret.id].failure_count = 0 /\ proxies[ret.id].status = "active"
    /\ proxies[ret.id].last_used # NULL
    /\ \E i \in 1..Len(proxies) :
          i # ret.id /\ proxies[i].status = "inactive" /\ proxies[i].failure_count >= 5

\* C15: _increment_failure_count raises the failure count of the named proxy
\* by exactly one; its status becomes inactive when the new count is 5 or
\* more and is kept when the new count is below 5; nothing else changes.
C15_IncrementByOne ==
    [][CallStep("increment_failure_count") =>
        LET id == ret'.id
        IN  /\ id \in 1..Len(proxies)
            /\ proxies'[id].failure_count = proxies[id].failure_count + 1
            /\ proxies'[id].failure_count >= 5 => proxies'[id].status = "inactive"
            /\ proxies'[id].failure_count < 5 =>
                  proxies'[id].status = proxies[id].status
            /\ proxies'[id].ip = proxies[id].ip
            /\ proxies'[id].port = proxies[id].port
            /\ proxies'[id].last_used = proxies[id].last_used
            /\ OthersUnchanged(id)
    ]_vars

\* the failure just counted was the fifth of its proxy, which is now
\* inactive; the other proxy has four and is still active
C15_Witness ==
    /\ ret.op = "increment_failure_count"
    /\ proxies[ret.id].failure_count = 5 /\ proxies[ret.id].status = "inactive"
    /\ \E i \in 1..Len(proxies) :
          i # ret.id /\ proxies[i].failure_count = 4 /\ proxies[i].status = "active"

\* C16: after rotate_proxies every proxy that was available at its start has
\* failure count 0 and status active if its probe succeeded, and has had one
\* failure counted if its probe failed, whether by an exception or by a
\* status code other than 200.
C16_SweepCountsEveryFailure ==
    [][CallStep("rotate_proxies") =>
        \A i \in 1..Len(proxies) :
            Eligible(proxies[i]) =>
                IF ret'.outcome[i] = "ok"
                THEN proxies'[i].failure_count = 0 /\ proxies'[i].status = "active"
                ELSE proxies'[i].failure_count = proxies[i].failure_count + 1
    ]_vars

\* C17: a proxy goes from inactive to active only in a reset_failure_count
\* call for it, made directly or by rotate_proxies for a probe that
\* succeeded; load_proxies, get_next_proxy and _increment_failure_count never
\* make an inactive proxy active.
C17_ReactivationOnlyByReset ==
    [][\A i \in 1..Len(proxies) :
          (proxies[i].status = "inactive" /\ proxies'[i].status = "active") =>
              \/ ret'.op = "reset_failure_count" /\ ret'.id = i
              \/ ret'.op = "rotate_proxies" /\ ret'.outcome[i] = "ok"
    ]_vars

\* a file with the host+port of an inactive proxy was loaded and the proxy is
\* still inactive
C17_Witness ==
    /\ ret.op = "load_proxies" /\ Len(ret.rows) = 1
    /\ \E i \in 1..Len(proxies) :
          /\ proxies[i].ip = ret.rows[1].ip /\ ret.rows[1].port # BadPort
          /\ proxies[i].status = "inactive"

\* C18: when no proxy is available (the table is empty, or every row is
\* inactive or has 5 or more failures), get_next_proxy returns None and
\* leaves every row as it was.
C18_NoneWhenExhausted ==
    [][( /\ CallStep("get_next_proxy")
         /\ \A i \in 1..Len(proxies) : ~Eligible(proxies[i]) ) =>
          (ret'.val = None /\ proxies' = proxies)
    ]_vars

\* get_next_proxy returned None on a table of two inactive proxies
C18_Witness ==
    /\ ret.op = "get_next_proxy" /\ ret.val = None
    /\ Len(proxies) = 2
    /\ \A i \in 1..Len(proxies) : proxies[i].status = "inactive"

\* C19: a get_next_proxy call that returns a proxy sets last_used of that
\* proxy to the current time and changes no other column and no other row.
C19_AcquireStampsOnly ==
    [][AcquireStep =>
        LET id == ret'.val[1].id
        IN  /\ proxies'[id].last_used = now
            /\ proxies'[id].status = proxies[id].status
            /\ proxies'[id].failure_count = proxies[id].failure_count
            /\ proxies'[id].ip = proxies[id].ip
            /\ proxies'[id].port = proxies[id].port
            /\ OthersUnchanged(id)
    ]_vars

\* the returned proxy carries the stamp of this hour; the other proxy, also
\* available, keeps an older stamp
C19_Witness ==
    /\ Returned
    /\ proxies[ret.val[1].id].last_used = now
    /\ \E i \in 1..Len(proxies) :
          /\ i # ret.val[1].id /\ Eligible(proxies[i])
          /\ proxies[i].last_used # NULL /\ proxies[i].last_used < now
\* ------------------------------------------ claims, a job without a proxy
\* C20: a post or comment job that fired inside the activity window for an
\* account that exists (it is at its get_next_proxy call) and finds no proxy
\* available goes to its return with None: no login, no submission, the
\* accounts, activity_log and proxies tables and the job table untouched, the
\* process still in its run-loop; and at the return the job stays in the
\* table, the accounts table is untouched and the run-loop goes on.
C20_NoProxyEndsAttempt ==
    [][/\ ( /\ run.pc = "proxy" /\ run'.pc \notin {"proxy", "dead"}
            /\ \A i \in 1..Len(proxies) : ~Eligible(proxies[i]) ) =>
            /\ run'.pc = "return" /\ run'.ret.kind = "none"
            /\ run'.success = "unset" /\ run'.post_id = "unset"
            /\ ret'.op = "get_next_proxy" /\ ret'.val = None
            /\ UNCHANGED <<proxies, accounts, activity_log, jobs>>
            /\ mode' = "deferred"
       /\ ( /\ ReturnStep /\ run.success = "unset" /\ run.ret.kind = "none"
            /\ ret.op = "get_next_proxy" /\ ret.val = None ) =>
            /\ jobs'[run.job].scheduled
            /\ jobs'[run.job].interval = jobs[run.job].interval
            /\ UNCHANGED <<accounts, activity_log>>
            /\ mode' = "deferred"
    ]_vars

\* a job that fired in the window for its account found the proxies table
\* empty and is at its return, with no login made
C20_Witness ==
    /\ run.pc = "return" /\ run.ret.kind = "none" /\ run.success = "unset"
    /\ ret.op = "get_next_proxy" /\ ret.val = None
    /\ proxies = <<>>
    /\ accounts[run.job.account].present
    /\ config.activity_hours.start <= now % 24
    /\ now % 24 <= config.activity_hours.end
    /\ mode = "deferred"
\* ------------------------------------------- claims, one job at a time
\* a post or comment job function has started and not yet returned to schedule
Executing == run.pc \notin {"idle", "dead"}

\* C21: in the run-loop at most one job executes at a time: from the start of
\* a post or comment job to its return no other job starts or is re-armed
\* (the executing job stays the same, every other entry of the job table keeps
\* its next_run, and no sweep runs), and a job starts only when none executes.
C21_OneJobAtATime ==
    [][/\ Executing =>
            /\ run'.pc # "idle" => run'.job = run.job
            /\ \A k \in JobIds \ {run.job} : jobs'[k] = jobs[k]
            /\ jobs' # jobs => run.pc = "return"
            /\ ret'.op = "rotate_proxies" => ret' = ret
       /\ (Rearmed /\ mode = "deferred" /\ ~Executing) =>
            run'.pc \in {"idle", "dead"}
    ]_vars

\* a job is in the middle of its work (logged in, not yet returned) while
\* another job of the table is due
C21_Witness ==
    /\ run.pc \in {"submit", "log", "update", "next"}
    /\ \E k \in JobIds \ {run.job} : jobs[k].scheduled /\ jobs[k].next_run <= now
\* ------------------------------------------ claims, the activity window
\* C24: for every hour 0..23 and every window start <= end, a job that fires
\* for an account that exists passes the window test exactly when
\* start <= hour <= end, both bounds included; with the default window 8..23
\* the test is true at hour 9 and false at hour 2.
C24_WindowInclusive ==
    [][(FireStep /\ accounts[run'.job.account].present) =>
          /\ (now % 24) \in 0..23
          /\ (run'.pc = "proxy") <=>
                (config.activity_hours.start <= now % 24 /\
                 now % 24 <= config.activity_hours.end)
          /\ run'.pc # "proxy" => run'.pc = "return" /\ run'.ret.kind = "none"
          /\ is_within_activity_hours(DefaultConfig, 9)
          /\ ~is_within_activity_hours(DefaultConfig, 2)
    ]_vars

\* a job passed the test at hour 23 of the window 8..23, its last hour
C24_Witness ==
    /\ run.pc = "proxy"
    /\ config.activity_hours = [start |-> 8, end |-> 23]
    /\ now % 24 = 23
\* --------------------------------------------- claims, the activity log
\* C25: the activity log is append-only: in every step the log after the step
\* begins with the log before it, record for record; it only grows at its end.
C25_LogAppendOnly ==
    [][/\ Len(activity_log') >= Len(activity_log)
       /\ \A i \in 1..Len(activity_log) : activity_log'[i] = activity_log[i]
    ]_vars

\* a second record was appended behind a first one of another kind
C25_Witness ==
    /\ Len(activity_log) = 2
    /\ activity_log[1].activity_type # activity_log[2].activity_type
C28_IntervalIsPureFunction ==
    run.ret.kind = "hours" =>
        LET f == IF run.job.func = "post" THEN config.post_frequency
                 ELSE config.comment_frequency
            perturbed == 100 * run.ret.base
                           + run.ret.sign * run.ret.base * f.variance_percent
        IN  /\ run.ret.sign \in {-1, 1}
            /\ f.min_hours <= run.ret.base /\ run.ret.base <= f.max_hours
            /\ run.ret.hours =
                  (IF perturbed >= 100 * f.min_hours THEN perturbed
                   ELSE 100 * f.min_hours)

\* the comment job of account 2 drew the sign +1 and returns its base plus
\* the variance, above min_hours
C28_Witness ==
    /\ run.ret.kind = "hours" /\ run.ret.sign = 1
    /\ run.job = [func |-> "comment", account |-> 2]
    /\ config.comment_frequency.variance_percent = 30
    /\ run.ret.base = 2
    /\ run.ret.hours = 260
C26_PasswordRoundTrip ==
    /\ (ret.op = "get_account_details" /\ ret.val # None) =>
          /\ ret.id \in DOMAIN saved
          /\ ret.val[1].password = <<saved[ret.id]>>
    /\ ret.op = "export_accounts" =>
          /\ DOMAIN ret.val[1] = DOMAIN saved
          /\ \A a \in DOMAIN saved : ret.val[1][a] = <<saved[a]>>

\* the lookup of account 1 gave back its two-character password while
\* account 2 is stored with another password
C26_Witness ==
    /\ ret.op = "get_account_details" /\ ret.id = 1 /\ ret.val # None
    /\ DOMAIN saved = {1, 2}
    /\ Len(saved[1]) = 2 /\ saved[2] # saved[1]
    /\ ret.val[1].password = <<saved[1]>>
\* -------------------------------------------- claims, the immediate mode
\* C22: in immediate mode one worker is started for every active account in
\* scope, and the run does not end while a started worker is still in the
\* middle of its planned sequence: once the process has ended, every account
\* that was fetched has a worker and every worker has reached its end.
C22_WorkersRunToTheEnd ==
    mode = "exited" =>
        /\ \A k \in 1..Len(run.accounts) : run.accounts[k] \in DOMAIN workers
        /\ \A a \in DOMAIN workers : workers[a].pc = "done"

\* two workers are inside get_next_proxy at the same moment: both have made
\* their choice and neither has written its stamp
Overlapping(a, b) ==
    /\ a # b /\ a \in DOMAIN workers /\ b \in DOMAIN workers
    /\ workers[a].pc = "stamp" /\ workers[b].pc = "stamp"

\* C29: two workers that call get_next_proxy concurrently while at least two
\* proxies are available receive different proxies.
C29_ConcurrentAcquiresDiffer ==
    \A a, b \in AccountIds :
        (Overlapping(a, b) /\ Len(get_available_proxies(proxies)) >= 2) =>
            workers[a].proxy[1].id # workers[b].proxy[1].id

\* --------------------------------------- claims, the counter statements
\* C23: with no reset in between, the failure counter of every proxy equals
\* the number of _increment_failure_count calls made for it, and the post and
\* comment counters of every account equal the number of counter UPDATEs
\* completed for it, whatever the order in which the calls were made.
C23_NoLostUpdate ==
    /\ \A i \in 1..Len(proxies) : proxies[i].failure_count = consec[i]
    /\ \A a \in DOMAIN workers :
          /\ accounts[a].total_posts = workers[a].posted
          /\ accounts[a].total_comments = workers[a].commented

\* two failures were counted for each proxy and two actions for each account
C23_Witness ==
    /\ \A i \in 1..Len(proxies) : consec[i] = 2 /\ proxies[i].failure_count = 2
    /\ \A a \in AccountIds :
          /\ workers[a].posted + workers[a].commented = 2
          /\ accounts[a].total_posts + accounts[a].total_comments = 2
\* ----------------------------------------- claims, firing times and rotation
\* C31: in deferred mode two consecutive firings of the same post job are at
\* least post_frequency.min_hours apart, and two consecutive firings of the
\* same comment job at least comment_frequency.min_hours.
C31_FiringsMinApart ==
    [][\A j \in PostCommentJobs :
          (FireStep /\ run'.job = j /\ jobs[j].fired # NULL) =>
              now - jobs[j].fired >= Frequency(config, j.func).min_hours]_vars
\* C32: with a fixed set of N available proxies and nothing but get_next_proxy
\* calls made one after the other, any N consecutive calls return N different
\* proxies.
C32_RoundRobin ==
    LET N == Len(get_available_proxies(proxies))
        got == run.got
    IN  \A i, j \in 1..Len(got) : (i < j /\ j - i < N) => got[i] # got[j]

\* three proxies are available and four calls were made: the first three gave
\* three different proxies and the fourth gave the first one again
C32_Witness ==
    /\ Len(get_available_proxies(proxies)) = 3
    /\ Len(run.got) = 4
    /\ Cardinality({run.got[k] : k \in 1..3}) = 3
    /\ run.got[4] = run.got[1]
\* ------------------------------------------ claims, jobs and proxy health
\* failure_count and status of every row are the same after the step
HealthUnchanged ==
    /\ Len(proxies') = Len(proxies)
    /\ \A i \in 1..Len(proxies) :
          /\ proxies'[i].failure_count = proxies[i].failure_count
          /\ proxies'[i].status = proxies[i].status

\* C33: no step of a post or comment job, a failed login or a failed
\* submission through the acquired proxy included, changes the failure_count
\* or the status of a proxy; these change only in a step of the rotation job.
C33_JobsLeaveHealthAlone ==
    [][/\ (Executing \/ FireStep) => HealthUnchanged
       /\ ~HealthUnchanged => (ret'.op = "rotate_proxies" /\ ret'.outcome # <<>>)
    ]_vars

\* a job whose login failed is at its return: the proxy it went through is
\* stamped and still active with failure_count 0
C33_Witness ==
    /\ run.pc = "return" /\ run.success = "failed"
    /\ ret.op = "get_next_proxy" /\ ret.val # None
    /\ proxies[ret.val[1].id].last_used # NULL
    /\ proxies[ret.val[1].id].failure_count = 0
    /\ proxies[ret.val[1].id].status = "active"
\* ------------------------------------ claims, counters and the activity log
\* success records of one kind that reference an account
SuccessRecords(log, a, kind) ==
    Cardinality({i \in 1..Len(log) :
                    /\ log[i].account = a
                    /\ log[i].activity_type = kind
                    /\ log[i].status = "success"})

\* C34: whenever no job is in the middle of an execution, total_posts of every
\* account equals the number of its success records of kind post and
\* total_comments the number of its success records of kind comment; and a job
\* step other than the counter UPDATE of a successful attempt changes neither
\* the counters nor last_post_date and last_comment_date.
C34_CountersMatchRecords ==
    [][/\ run'.pc \in {"idle", "dead"} =>
            \A a \in AccountIds : accounts'[a].present =>
                /\ accounts'[a].total_posts = SuccessRecords(activity_log', a, "post")
                /\ accounts'[a].total_comments =
                      SuccessRecords(activity_log', a, "comment")
       /\ (Executing /\ ~(run.pc = "update" /\ run.post_id = "id")) =>
            \A a \in AccountIds :
                /\ accounts'[a].total_posts = accounts[a].total_posts
                /\ accounts'[a].total_comments = accounts[a].total_comments
                /\ accounts'[a].last_post_date = accounts[a].last_post_date
                /\ accounts'[a].last_comment_date = accounts[a].last_comment_date
    ]_vars
\* ------------------------------------------ claims, status and failure count
\* C35: in every state a proxy is inactive exactly when its failure_count is
\* 5 or more, and every row a load adds is active with failure_count 0 and
\* no last_used stamp.
C35_StatusAgreesWithCount ==
    [][/\ \A i \in 1..Len(proxies') :
             /\ proxies'[i].status \in {"active", "inactive"}
             /\ (proxies'[i].status = "inactive") <=>
                   (proxies'[i].failure_count >= FailureThreshold)
       /\ CallStep("load_proxies") =>
             \A i \in (Len(proxies) + 1)..Len(proxies') :
                 /\ proxies'[i].status = "active"
                 /\ proxies'[i].failure_count = 0
                 /\ proxies'[i].last_used = NULL
    ]_vars

\* a row was loaded next to a proxy that five failures had made inactive
C35_Witness ==
    /\ ret.op = "load_proxies" /\ Len(ret.rows) = 1
    /\ Len(proxies) = 2
    /\ proxies[1].status = "inactive" /\ proxies[1].failure_count = 5
    /\ proxies[2].status = "active" /\ proxies[2].failure_count = 0
    /\ proxies[2].last_used = NULL
\* ------------------------------------------ claims, load and stored rows
\* C36: a load leaves every row that is already stored as it is: a record
\* whose ip and port are in the table changes neither the failure_count nor
\* the status nor the last_used stamp of that row, so that an inactive proxy
\* that is loaded again stays inactive.
C36_LoadKeepsStoredRows ==
    [][CallStep("load_proxies") =>
          \A i \in 1..Len(proxies) :
              /\ i <= Len(proxies')
              /\ proxies'[i] = proxies[i]]_vars

\* a well-formed file with the record of proxy 1 was loaded after the proxy
\* had been used and had gone inactive: it is inactive still
C36_Witness ==
    /\ ret.op = "load_proxies" /\ FileWellFormed
    /\ Len(proxies) >= 1
    /\ \E k \in 1..Len(ret.rows) :
          /\ ret.rows[k].ip = proxies[1].ip
          /\ PortNumber(ret.rows[k].port) = proxies[1].port
    /\ proxies[1].status = "inactive" /\ proxies[1].failure_count = 5
    /\ proxies[1].last_used # NULL
\* ------------------------------------- claims, a window with start > end
\* the configured start hour is after the end hour
Inverted == config.activity_hours.start > config.activity_hours.end

\* C37: when activity_hours.start is greater than activity_hours.end the
\* window test is false at every hour of the day; in the deferred and in the
\* immediate mode no job then takes a proxy, logs in, submits or records
\* anything, and a deferred post or comment job whose account exists is not
\* taken out of the job table.
C37_InvertedWindowNothingRuns ==
    [][Inverted =>
          /\ \A h \in 0..23 : ~is_within_activity_hours(config, h)
          /\ run'.pc \notin {"proxy", "login", "submit", "log", "update", "next"}
          /\ \A a \in DOMAIN workers' :
                workers'[a].pc \notin {"begin", "proxy", "stamp", "login", "log", "update"}
          /\ \A i \in 1..Len(proxies) : proxies'[i].last_used = proxies[i].last_used
          /\ activity_log' = activity_log
          /\ accounts' # accounts => mode = "deferred" /\ run' = run
          /\ \A j \in PostCommentJobs :
                (jobs[j].scheduled /\ accounts[j.account].present) => jobs'[j].scheduled
    ]_vars

\* with start 23 and end 2 the post job of an account that exists has fired
\* at hour 2 and is back in the table untouched, with two proxies that were
\* never taken
C37_Witness ==
    /\ config.activity_hours = [start |-> 23, end |-> 2]
    /\ mode = "deferred" /\ run.pc = "idle" /\ now = 2
    /\ \E j \in PostCommentJobs :
          /\ jobs[j].scheduled /\ jobs[j].fired = 2 /\ jobs[j].next_run > now
          /\ accounts[j.account].present
          /\ accounts[j.account].account_status = "active"
    /\ \A i \in 1..Len(proxies) :
          proxies[i].status = "active" /\ proxies[i].last_used = NULL
\* ------------------------------------------ claims, the plan of a worker
\* C38: in immediate mode, with max_daily_actions M >= 1, a worker plans at
\* least one post, and its planned posts and comments add up to a number
\* between max(1, M div 2) and M; it makes no more attempts in a phase than it
\* planned for it; and when the window check at the head of a turn fails, the
\* phase is over: the post phase gives way to the comment phase, the comment
\* phase to the end, and no phase is entered again.
C38_PlanBoundsAttempts ==
    [][\A a \in DOMAIN workers' :
          LET w == workers'[a]
              M == config.max_daily_actions
          IN  /\ w.pc # "plan" =>
                    /\ w.num_posts >= 1 /\ w.num_comments >= 0
                    /\ w.num_posts + w.num_comments >= Max(1, M \div 2)
                    /\ w.num_posts + w.num_comments <= M
                    /\ w.i <= Planned(w)
                    /\ w.posted <= w.num_posts /\ w.commented <= w.num_comments
              /\ a \in DOMAIN workers =>
                    LET v == workers[a]
                    IN  /\ v.loop = "comment" => w.loop = "comment"
                        /\ v.pc = "done" => w.pc = "done"
                        /\ w.pc = "begin" /\ v.pc # "begin" =>
                              /\ v.pc = "loop" /\ w.loop = v.loop
                              /\ w.i = v.i + 1
                        /\ ( /\ v.pc = "loop" /\ w # v /\ v.i < Planned(v)
                             /\ ~(config.activity_hours.start <= now % 24 /\
                                  now % 24 <= config.activity_hours.end) ) =>
                              /\ w.pc # "begin"
                              /\ v.loop = "post" => w.loop = "comment" /\ w.pc = "loop"
                              /\ v.loop = "comment" => w.pc = "done"
    ]_vars

\* with max_daily_actions 7 a worker planned two posts and five comments,
\* made one post and found the clock outside the activity hours at the head
\* of its second turn: it is in the comment phase with no turn taken
C38_Witness ==
    /\ config.max_daily_actions = 7
    /\ 1 \in DOMAIN workers
    /\ workers[1].num_posts = 2 /\ workers[1].num_comments = 5
    /\ workers[1].posted = 1
    /\ workers[1].loop = "comment" /\ workers[1].i = 0 /\ workers[1].pc = "loop"
    /\ ~is_within_activity_hours(config, now)
====
